---- MODULE Spec2Model ----
(***************************************************************************)
(* A model of tensorflow_estimator/python/estimator/keras.py: the          *)
(* conversion of a compiled Keras model into an Estimator.                 *)
(*                                                                         *)
(* model_to_estimator and _save_first_checkpoint are modelled statement    *)
(* group by statement group (pc), so that every intermediate state of a    *)
(* conversion is a state of the model.  model_fn, and the pure helpers     *)
(* (_convert_estimator_io_to_keras, the prediction-key normalisation),     *)
(* are operators applied by single actions.                                *)
(*                                                                         *)
(* Keras and TensorFlow are collaborators outside this file: a Keras call  *)
(* is modelled by its documented effect on the objects this file reads     *)
(* (a clone is a new object or, for an in-place reset, the model itself;   *)
(* a Session is open from its construction until close), and an argument   *)
(* of model_to_estimator is drawn at the statement that first reads it.    *)
(***************************************************************************)
EXTENDS Naturals, Integers, Sequences, FiniteSets, TLC

VARIABLES
  eager,       \* ops.executing_eagerly_outside_functions()
  caller,      \* the caller's Keras model object
  fs,          \* [Dirs -> latest checkpoint file in <dir>/keras, "" when none]
  dirs,        \* the <dir>/keras directories that exist
  sessions,    \* the open tf.compat.v1.Session objects
  backend,     \* the Keras backend session (K.set_session / K.get_session)
  graph,       \* the default graph
  learning,    \* K.learning_phase of the default graph
  pc,          \* position in model_to_estimator / _save_first_checkpoint
  frame,       \* locals of model_to_estimator
  sfc,         \* locals of _save_first_checkpoint
  effects,     \* side effects of the running call, in order
  warned,      \* warnings logged by the running call
  outcome,     \* how the call ended: an exception (and where) or "Estimator"
  clones,      \* [Dirs -> number of bootstrap clones made for the directory]
  writes,      \* [Dirs -> number of first checkpoints written to the directory]
  fns,         \* the model_fn functions the caller has kept
  spec,        \* what the last model_fn invocation returned or raised
  io           \* last application of _convert_estimator_io_to_keras

vars == <<eager, caller, fs, dirs, sessions, backend, graph, learning, pc, frame,
          sfc, effects, warned, outcome, clones, writes, fns, spec, io>>

-----------------------------------------------------------------------------
(* Bounds of the model. *)

\* the counters clones and writes saturate at CountCap
CountCap == 2
\* the caller keeps at most MaxFns model_fn functions
MaxFns == 2

-----------------------------------------------------------------------------
(* Values. *)

None == "None"

Dirs == {"d1", "d2"}

\* A Keras model object, by the attributes keras.py reads.
\*   layers: one sequence per layer, one entry per weight, TRUE when the
\*   weight carries the _keras_initialized mark.
ModelKinds == {"functional", "sequential", "subclassed"}
Optimizers == {"absent", None, "opt", "tfopt"}
LayerSets == { << <<>> >>, << <<FALSE>> >>, << <<>>, <<FALSE, TRUE>> >> }

NoModel ==
  [kind |-> "none", is_graph_network |-> FALSE, has_config |-> FALSE,
   optimizer |-> "absent", layers |-> <<>>, built |-> FALSE, inputs |-> None,
   attrs |-> "orig", cache |-> "absent"]

\* The model objects a program can hold: a graph network is built and has list
\* inputs; a model that was never built has no weights and unknown inputs.
ModelRecs ==
  { m \in [kind : ModelKinds, is_graph_network : BOOLEAN, has_config : BOOLEAN,
           optimizer : Optimizers, layers : LayerSets, built : BOOLEAN,
           inputs : {"list", "dict", None}, attrs : {"orig"}, cache : {"absent"}] :
      /\ m.kind = "functional" => m.is_graph_network
      /\ m.kind = "subclassed" => ~m.is_graph_network
      /\ m.kind # "subclassed" => m.has_config
      /\ m.is_graph_network => m.built /\ m.inputs = "list"
      /\ m.kind = "sequential" => m.inputs # "dict"
      /\ m.built <=> m.inputs # None
      /\ ~m.built => m.layers = << <<>> >> }

is_sequential(m) == m.kind = "sequential"

\* bool(x) of an argument: None and the empty string are false.
Truthy(x) == x # None /\ x # ""

NoPath == <<>>
NoSession == [kind |-> "none", graph |-> "none", gpu |-> FALSE]
NoFn ==
  [model |-> None, loaded |-> NoModel, custom_objects |-> None,
   save_object_ckpt |-> FALSE, metric_names_map |-> None,
   optimizer_config |-> None]
NoConfig == [model_dir |-> None, gpu_options |-> FALSE, is_chief |-> FALSE]

Bump(n) == IF n < CountCap THEN n + 1 ELSE CountCap

-----------------------------------------------------------------------------
(* Helpers of keras.py. *)

\* _any_weight_initialized, lines 71-89
_any_weight_initialized(keras_model) ==
  IF keras_model = NoModel THEN FALSE
  ELSE IF eager THEN TRUE
  ELSE \E i \in DOMAIN keras_model.layers :
         \E j \in DOMAIN keras_model.layers[i] : keras_model.layers[i][j]

\* keras_model.get_weights(): one array per weight, in layer order
RECURSIVE Flatten(_)
Flatten(ls) == IF ls = <<>> THEN <<>> ELSE Head(ls) \o Flatten(Tail(ls))

get_weights(keras_model) == Flatten(keras_model.layers)

\* _assert_valid_model, lines 674-685: the exception it raises, None when none
_assert_valid_model(model) ==
  LET is_subclass == ~model.is_graph_network /\ ~is_sequential(model)
  IN  IF is_subclass /\ ~model.has_config THEN "ValueError" ELSE None

\* lines 591-597: the two argument checks
NeitherGiven(keras_model, keras_model_path) ==
  ~(Truthy(keras_model) \/ Truthy(keras_model_path))

\* mutant: the second argument check is missing
BothGivenUnchecked(keras_model, keras_model_path) == FALSE

BothGiven(keras_model, keras_model_path) ==
  Truthy(keras_model) /\ Truthy(keras_model_path)

\* lines 605-606
IsGoogleStorage(keras_model_path) ==
  keras_model_path \in {"gs://b/m.h5", "https://storage.googleapis.com/b/m.h5"}

\* mutant: the object-based format is not restricted to models of known structure
CheckpointFormatUnrestricted(checkpoint_format, keras_model) ==
  IF checkpoint_format = None \/ checkpoint_format = "checkpoint"
  THEN [raise |-> None, save_object_ckpt |-> TRUE]
  ELSE IF checkpoint_format = "saver"
       THEN [raise |-> None, save_object_ckpt |-> FALSE]
       ELSE [raise |-> "ValueError", save_object_ckpt |-> FALSE]

\* lines 615-626: save_object_ckpt, or the exception raised
CheckpointFormatChoice(checkpoint_format, keras_model) ==
  IF checkpoint_format = None \/ checkpoint_format = "checkpoint"
  THEN IF ~(keras_model.is_graph_network \/ is_sequential(keras_model))
       THEN [raise |-> "ValueError", save_object_ckpt |-> FALSE]
       ELSE [raise |-> None, save_object_ckpt |-> TRUE]
  ELSE IF checkpoint_format = "saver"
       THEN [raise |-> None, save_object_ckpt |-> FALSE]
       ELSE [raise |-> "ValueError", save_object_ckpt |-> FALSE]

\* mutant: only a missing optimizer attribute counts as uncompiled
UncompiledNoAttribute(keras_model) == keras_model.optimizer = "absent"

\* line 628
Uncompiled(keras_model) ==
  keras_model.optimizer = "absent" \/ ~Truthy(keras_model.optimizer)

\* lines 312-319: the optimizer config captured by _create_keras_model_fn
OptimizerConfig(keras_model) ==
  IF keras_model.optimizer = "opt" THEN "config" ELSE None

\* models.clone_and_build_model, called at lines 233-241: whether Keras resets
\* the model in place instead of building a new object.  A graph network or a
\* Sequential model is always cloned; a subclassed model without get_config is
\* reset in place; one with get_config is cloned or reset, by the Keras version.
InPlaceChoices(keras_model, in_place_reset) ==
  IF keras_model.is_graph_network \/ is_sequential(keras_model) \/ ~in_place_reset
  THEN {FALSE}
  ELSE IF keras_model.has_config THEN {FALSE, TRUE} ELSE {TRUE}

\* _in_place_subclassed_model_reset: the attributes the model holds are saved
\* in _original_attributes_cache and replaced by fresh ones
InPlaceReset(keras_model) ==
  [keras_model EXCEPT !.attrs = "clone", !.cache = keras_model.attrs]

\* line 239: in_place_reset=(not keras_model._is_graph_network)
CloneInPlace(keras_model) ==
  InPlaceChoices(keras_model, ~keras_model.is_graph_network)

\* mutant: model_fn returns without restoring the model
RestorationOmitted(keras_model) == keras_model

\* models.in_place_subclassed_model_state_restoration, line 367: the saved
\* attributes are put back and the cache is emptied
in_place_subclassed_model_state_restoration(keras_model) ==
  [keras_model EXCEPT !.attrs = keras_model.cache, !.cache = None]

-----------------------------------------------------------------------------
(* State shared by the actions. *)

Graphs == {"outer", "boot", "fn"}

NoFrame ==
  [keras_model |-> None, keras_model_path |-> None, custom_objects |-> None,
   ref |-> None, loaded |-> NoModel, config |-> NoConfig,
   checkpoint_format |-> "unread",
   save_object_ckpt |-> FALSE, model_fn |-> NoFn, warm_start_path |-> NoPath,
   estimator_cls |-> None, backend0 |-> NoSession]

NoSfc ==
  [at |-> 0, entered |-> FALSE, entry_latest |-> NoPath, latest_path |-> NoPath,
   keras_weights |-> <<>>, weights_read |-> FALSE, cloned |-> FALSE]

\* eval_metric_ops: None, or the names of the metrics
NoMetrics == [raise |-> None, none |-> TRUE, names |-> {}]

\* what model_fn returned or raised: the fields of the EstimatorSpec, and of
\* the clone it was made from whether it was compiled (compiled), the global
\* step given to its optimizer (optimizer_iterations) and the function built
\* for it (function)
NoSpec ==
  [status |-> "none", raise |-> None, at |-> None, mode |-> None,
   compiled |-> FALSE, optimizer_iterations |-> None, function |-> None,
   predictions |-> {}, loss |-> None, train_op |-> None,
   eval_metric_ops |-> NoMetrics, export_outputs |-> {}, scaffold |-> None]
NoIo == [status |-> "none"]

\* the local variable keras_model of model_to_estimator after line 613
Km == IF frame.ref = "caller" THEN caller ELSE frame.loaded

\* The Keras session a program holds before the first conversion: Keras marks
\* weights as initialized when it creates its session (get_session).
KerasSession == [kind |-> "keras", graph |-> "outer", gpu |-> FALSE]

HasMark(m) ==
  \E i \in DOMAIN m.layers : \E j \in DOMAIN m.layers[i] : m.layers[i][j]

NoOutcome == [kind |-> "none", at |-> "none"]

\* an exception leaves model_to_estimator; at: the statement group that raised
Raise(exc) == pc' = "raised" /\ outcome' = [kind |-> exc, at |-> pc]

-----------------------------------------------------------------------------
(* model_to_estimator, lines 492-671. *)

Paths == {None, "", "/m.h5", "gs://b/m.h5"}
CheckpointFormats == {None, "checkpoint", "saver", "h5"}
MetricMaps == {None, "renamed"}
CustomObjects == {None, "objects"}

\* the call: the three arguments read by lines 591-600; a program calls while
\* no model_fn result is pending and it keeps fewer than MaxFns Estimators
Call(keras_model, keras_model_path, custom_objects) ==
  /\ pc = "idle"
  /\ spec.status = "none"
  /\ Len(fns) < MaxFns
  /\ pc' = "check_args"
  /\ frame' = [NoFrame EXCEPT !.keras_model = keras_model,
                              !.keras_model_path = keras_model_path,
                              !.custom_objects = custom_objects,
                              !.backend0 = backend]
  /\ UNCHANGED <<eager, caller, fs, dirs, sessions, backend, graph, learning,
                 sfc, effects, warned, outcome, clones, writes, fns, spec, io>>

\* lines 591-597
CheckArgs ==
  /\ pc = "check_args"
  /\ IF NeitherGiven(frame.keras_model, frame.keras_model_path)
        \/ BothGiven(frame.keras_model, frame.keras_model_path)
     THEN Raise("ValueError")
     ELSE pc' = "validate" /\ UNCHANGED outcome
  /\ UNCHANGED <<eager, caller, fs, dirs, sessions, backend, graph, learning,
                 frame, sfc, effects, warned, clones, writes, fns, spec, io>>

\* lines 599-606; line 602 resolves the run config, whose fields are drawn
\* where they are first read (config.model_dir, .session_config, .is_chief)
AssertValidModel ==
  /\ pc = "validate"
  /\ IF Truthy(frame.keras_model)
     THEN /\ effects' = Append(effects, "validate")
          /\ IF _assert_valid_model(caller) # None
             THEN Raise(_assert_valid_model(caller))
             ELSE pc' = "load" /\ UNCHANGED outcome
     ELSE /\ pc' = IF IsGoogleStorage(frame.keras_model_path)
                   THEN "download" ELSE "load"
          /\ UNCHANGED <<effects, outcome>>
  /\ UNCHANGED <<eager, caller, fs, dirs, sessions, backend, graph, learning,
                 frame, sfc, warned, clones, writes, fns, spec, io>>

\* lines 607-608 and _get_file_from_google_storage, lines 452-487
GetFile(dl, model_dir) ==
  /\ pc = "download"
  /\ LET d == model_dir
         made == IF d \in dirs THEN <<>> ELSE <<"mkdir">>
     IN  IF dl = "no_lib"
         THEN Raise("TypeError") /\ UNCHANGED <<dirs, effects, frame>>
         ELSE /\ dirs' = dirs \cup {d}
              /\ IF dl = "fail"
                 THEN /\ Raise("ValueError")
                      /\ effects' = effects \o made
                      /\ frame' = [frame EXCEPT !.config.model_dir = d]
                 ELSE /\ effects' = effects \o made \o <<"download">>
                      /\ frame' = [frame EXCEPT !.config.model_dir = d,
                                                 !.keras_model_path = "keras_model.h5"]
                      /\ pc' = "load"
                      /\ UNCHANGED outcome
  /\ UNCHANGED <<eager, caller, fs, sessions, backend, graph, learning,
                 sfc, warned, clones, writes, fns, spec, io>>

\* lines 604, 609-613
LoadModel(loaded) ==
  /\ pc = "load"
  /\ IF ~Truthy(frame.keras_model)
     THEN IF loaded = NoModel
          THEN Raise("OSError") /\ UNCHANGED <<frame, effects>>
          ELSE /\ frame' = [frame EXCEPT !.ref = "loaded", !.loaded = loaded]
               /\ effects' = Append(effects, "load")
               /\ pc' = "format"
               /\ UNCHANGED outcome
     ELSE /\ loaded = NoModel
          /\ frame' = [frame EXCEPT !.ref = "caller"]
          /\ pc' = "format"
          /\ UNCHANGED <<effects, outcome>>
  /\ UNCHANGED <<eager, caller, fs, dirs, sessions, backend, graph, learning,
                 sfc, warned, clones, writes, fns, spec, io>>

\* lines 615-626
CheckpointFormat(checkpoint_format) ==
  /\ pc = "format"
  /\ LET c == CheckpointFormatChoice(checkpoint_format, Km)
     IN  IF c.raise # None
         THEN /\ Raise(c.raise)
              /\ frame' = [frame EXCEPT !.checkpoint_format = checkpoint_format]
         ELSE /\ frame' = [frame EXCEPT !.checkpoint_format = checkpoint_format,
                                        !.save_object_ckpt = c.save_object_ckpt]
              /\ pc' = "compiled"
              /\ UNCHANGED outcome
  /\ UNCHANGED <<eager, caller, fs, dirs, sessions, backend, graph, learning,
                 sfc, effects, warned, clones, writes, fns, spec, io>>

\* lines 628-631
CheckCompiled ==
  /\ pc = "compiled"
  /\ IF Uncompiled(Km)
     THEN Raise("ValueError")
     ELSE pc' = "model_fn" /\ UNCHANGED outcome
  /\ UNCHANGED <<eager, caller, fs, dirs, sessions, backend, graph, learning,
                 frame, sfc, effects, warned, clones, writes, fns, spec, io>>

\* lines 633-634 and _create_keras_model_fn, lines 292-391: the closure
_create_keras_model_fn(ref, loaded, custom_objects, save_object_ckpt, metric_names_map, keras_model) ==
  [model |-> ref, loaded |-> loaded, custom_objects |-> custom_objects,
   save_object_ckpt |-> save_object_ckpt, metric_names_map |-> metric_names_map,
   optimizer_config |-> OptimizerConfig(keras_model)]

CreateModelFn(metric_names_map) ==
  /\ pc = "model_fn"
  /\ frame' = [frame EXCEPT !.model_fn =
                 _create_keras_model_fn(frame.ref, frame.loaded,
                                        frame.custom_objects,
                                        frame.save_object_ckpt,
                                        metric_names_map, Km)]
  /\ pc' = "session"
  /\ UNCHANGED <<eager, caller, fs, dirs, sessions, backend, graph, learning,
                 sfc, effects, warned, outcome, clones, writes, fns, spec, io>>

\* lines 635-646
SessionConfig(gpu_options) ==
  /\ pc = "session"
  /\ frame' = [frame EXCEPT !.config.gpu_options = gpu_options]
  /\ IF _any_weight_initialized(Km)
     THEN /\ warned' = IF gpu_options
                       THEN warned \cup {"session_config"} ELSE warned
          /\ UNCHANGED <<sessions, backend, effects>>
     ELSE LET sess == [kind |-> "backend", graph |-> graph,
                       gpu |-> gpu_options]
          IN  /\ sessions' = sessions \cup {sess}
              /\ backend' = sess
              /\ effects' = Append(effects, "session")
              /\ UNCHANGED warned
  /\ pc' = "warm"
  /\ UNCHANGED <<eager, caller, fs, dirs, graph, learning, sfc, outcome,
                 clones, writes, fns, spec, io>>

\* lines 648-662
WarmStart(is_chief) ==
  /\ pc = "warm"
  /\ frame' = [frame EXCEPT !.config.is_chief = is_chief]
  /\ IF Km.is_graph_network /\ is_chief
     THEN /\ pc' = "sfc"
          /\ sfc' = [NoSfc EXCEPT !.at = 1, !.entered = TRUE]
          /\ UNCHANGED warned
     ELSE /\ pc' = "estimator"
          /\ warned' = IF Km.built THEN warned \cup {"subclassed"} ELSE warned
          /\ UNCHANGED sfc
  /\ UNCHANGED <<eager, caller, fs, dirs, sessions, backend, graph, learning,
                 effects, outcome, clones, writes, fns, spec, io>>

\* lines 663-671
BuildEstimator(use_v2_estimator) ==
  /\ pc = "estimator"
  /\ frame' = [frame EXCEPT !.estimator_cls =
                 IF use_v2_estimator THEN "EstimatorV2" ELSE "Estimator"]
  /\ outcome' = [kind |-> "Estimator", at |-> pc]
  /\ pc' = "returned"
  /\ UNCHANGED <<eager, caller, fs, dirs, sessions, backend, graph, learning,
                 sfc, effects, warned, clones, writes, fns, spec, io>>

\* the caller takes the result (or the exception) and drops it
Return ==
  /\ pc \in {"raised", "returned"}
  /\ pc' = "idle"
  /\ frame' = NoFrame
  /\ sfc' = NoSfc
  /\ effects' = <<>>
  /\ warned' = {}
  /\ outcome' = NoOutcome
  /\ UNCHANGED <<eager, caller, fs, dirs, sessions, backend, graph, learning,
                 clones, writes, fns, spec, io>>

-----------------------------------------------------------------------------
(* _save_first_checkpoint, lines 394-449. *)

\* mutant: the train function is built inside the bootstrap session
SfcOrderSessionFirst ==
  <<"latest", "weights", "clone", "session", "train_fn", "set_weights",
    "init_vars", "save">>

\* the statement groups of the function, in source order
SfcOrder ==
  <<"latest", "weights", "clone", "train_fn", "session", "set_weights",
    "init_vars", "save">>

SfcAt(step) == pc = "sfc" /\ sfc.at \in DOMAIN SfcOrder /\ SfcOrder[sfc.at] = step

BootSession == [kind |-> "boot", graph |-> "boot", gpu |-> frame.config.gpu_options]

\* mutant: an existing checkpoint is not found
latest_checkpoint_none(d) == NoPath

\* tf.train.latest_checkpoint(<model_dir>/keras)
latest_checkpoint(d) == IF fs[d] = "" THEN NoPath ELSE <<d, "keras", fs[d]>>

\* leaving the `with` blocks of lines 417 and 432, by return or by exception:
\* the session is closed and the previous default graph is restored
SfcExit ==
  /\ sessions' = {s \in sessions : s.kind # "boot"}
  /\ graph' = "outer"
  /\ learning' = [learning EXCEPT !["boot"] = "unset"]

\* mutant: an exception leaves the bootstrap session open
SfcRaiseLeak == Raise("Error") /\ UNCHANGED <<sessions, graph, learning>>

\* an exception raised inside the function leaves model_to_estimator
SfcRaise == SfcExit /\ Raise("Error")

\* lines 408-411
SfcLatest(model_dir) ==
  /\ SfcAt("latest")
  /\ frame.config.model_dir \in {None, model_dir}
  /\ LET latest_path == latest_checkpoint(model_dir)
     IN  IF latest_path # NoPath
         THEN /\ sfc' = [sfc EXCEPT !.entry_latest = latest_path,
                                    !.latest_path = latest_path]
              /\ frame' = [frame EXCEPT !.config.model_dir = model_dir,
                                        !.warm_start_path = latest_path]
              /\ pc' = "estimator"
         ELSE /\ sfc' = [sfc EXCEPT !.at = @ + 1]
              /\ frame' = [frame EXCEPT !.config.model_dir = model_dir]
              /\ UNCHANGED pc
  /\ UNCHANGED <<eager, caller, fs, dirs, sessions, backend, graph, learning,
                 effects, warned, outcome, clones, writes, fns, spec, io>>

\* lines 412-416
SfcWeights ==
  /\ SfcAt("weights")
  /\ LET d == frame.config.model_dir
     IN  /\ sfc' = [sfc EXCEPT !.at = @ + 1,
                      !.weights_read = _any_weight_initialized(Km),
                      !.keras_weights = IF _any_weight_initialized(Km)
                                        THEN get_weights(Km) ELSE <<>>]
         /\ dirs' = dirs \cup {d}
         /\ effects' = IF d \in dirs THEN effects ELSE Append(effects, "mkdir")
  /\ UNCHANGED <<eager, caller, fs, sessions, backend, graph, learning, pc,
                 frame, warned, outcome, clones, writes, fns, spec, io>>

\* lines 417-421: a fresh default graph, then _clone_and_build_model(TRAIN)
SfcClone(ok) ==
  /\ SfcAt("clone")
  /\ IF ok
     THEN /\ graph' = "boot"
          /\ learning' = [learning EXCEPT !["boot"] = "train"]
          /\ sfc' = [sfc EXCEPT !.at = @ + 1, !.cloned = TRUE]
          /\ effects' = Append(effects, "clone")
          /\ clones' = [clones EXCEPT ![frame.config.model_dir] = Bump(@)]
          /\ \E in_place \in CloneInPlace(Km) :
               /\ caller' = IF in_place /\ frame.ref = "caller"
                            THEN InPlaceReset(caller) ELSE caller
               /\ frame' = IF in_place /\ frame.ref # "caller"
                           THEN [frame EXCEPT !.loaded = InPlaceReset(@)]
                           ELSE frame
          /\ UNCHANGED <<sessions, pc, outcome>>
     ELSE SfcRaise /\ UNCHANGED <<caller, frame, sfc, effects, clones>>
  /\ UNCHANGED <<eager, fs, dirs, backend, warned, writes, fns, spec, io>>

\* line 429
SfcTrainFn(ok) ==
  /\ SfcAt("train_fn")
  /\ IF ok
     THEN /\ sfc' = [sfc EXCEPT !.at = @ + 1]
          /\ effects' = Append(effects, "train_fn")
          /\ UNCHANGED <<sessions, graph, learning, pc, outcome>>
     ELSE SfcRaise /\ UNCHANGED <<sfc, effects>>
  /\ UNCHANGED <<eager, caller, fs, dirs, backend, frame, warned, clones,
                 writes, fns, spec, io>>

\* line 432
SfcOpenSession ==
  /\ SfcAt("session")
  /\ sessions' = sessions \cup {BootSession}
  /\ sfc' = [sfc EXCEPT !.at = @ + 1]
  /\ effects' = Append(effects, "boot_session")
  /\ UNCHANGED <<eager, caller, fs, dirs, backend, graph, learning, pc, frame,
                 warned, outcome, clones, writes, fns, spec, io>>

\* lines 433-434
SfcSetWeights(ok) ==
  /\ SfcAt("set_weights")
  /\ IF sfc.weights_read /\ sfc.keras_weights # <<>>
     THEN IF ok
          THEN /\ sfc' = [sfc EXCEPT !.at = @ + 1]
               /\ effects' = Append(effects, "set_weights")
               /\ UNCHANGED <<sessions, graph, learning, pc, outcome>>
          ELSE SfcRaise /\ UNCHANGED <<sfc, effects>>
     ELSE /\ ok
          /\ sfc' = [sfc EXCEPT !.at = @ + 1]
          /\ UNCHANGED <<effects, sessions, graph, learning, pc, outcome>>
  /\ UNCHANGED <<eager, caller, fs, dirs, backend, frame, warned, clones,
                 writes, fns, spec, io>>

\* line 437
SfcInitVars(ok) ==
  /\ SfcAt("init_vars")
  /\ IF ok
     THEN /\ sfc' = [sfc EXCEPT !.at = @ + 1]
          /\ effects' = Append(effects, "init_vars")
          /\ UNCHANGED <<sessions, graph, learning, pc, outcome>>
     ELSE SfcRaise /\ UNCHANGED <<sfc, effects>>
  /\ UNCHANGED <<eager, caller, fs, dirs, backend, frame, warned, clones,
                 writes, fns, spec, io>>

\* lines 439-449: the checkpoint is written, both `with` blocks are left and
\* the path is returned to line 650
SfcSave(ok) ==
  /\ SfcAt("save")
  /\ SfcExit
  /\ IF ok
     THEN LET d == frame.config.model_dir
              latest_path == <<d, "keras", "keras_model.ckpt">>
          IN  /\ fs' = [fs EXCEPT ![d] = "keras_model.ckpt"]
              /\ writes' = [writes EXCEPT ![d] = Bump(@)]
              /\ effects' = Append(effects, "ckpt")
              /\ sfc' = [sfc EXCEPT !.latest_path = latest_path]
              /\ frame' = [frame EXCEPT !.warm_start_path = latest_path]
              /\ pc' = "estimator"
              /\ UNCHANGED outcome
     ELSE Raise("Error") /\ UNCHANGED <<fs, writes, effects, sfc, frame>>
  /\ UNCHANGED <<eager, caller, dirs, backend, warned, clones, fns, spec, io>>

-----------------------------------------------------------------------------
(* The conversion specification. *)

\* what models.load_model may return from an HDF5 file (NoModel: it raises):
\* a functional or Sequential graph network, compiled or not, whose weights,
\* if any, were assigned through the Keras session
SavedModels ==
  {m \in ModelRecs : m.is_graph_network /\ m.layers # << <<FALSE>> >>
                     /\ m.optimizer # "absent"}

\* the program before any call of this file
Before ==
  /\ eager \in BOOLEAN
  /\ caller \in ModelRecs
  /\ fs = [d \in Dirs |-> IF d = "d2" THEN "model.ckpt-7" ELSE ""]
  /\ dirs = {d \in Dirs : fs[d] # ""}
  /\ backend = IF ~eager /\ HasMark(caller) THEN KerasSession ELSE NoSession
  /\ sessions = {backend} \ {NoSession}
  /\ graph = "outer"
  /\ learning = [g \in Graphs |-> "unset"]
  /\ pc = "idle"
  /\ frame = NoFrame
  /\ sfc = NoSfc
  /\ effects = <<>>
  /\ warned = {}
  /\ outcome = NoOutcome
  /\ clones = [d \in Dirs |-> 0]
  /\ writes = [d \in Dirs |-> 0]
  /\ fns = <<>>

Init == Before /\ spec = NoSpec /\ io = NoIo

\* the steps of a conversion, its inputs drawn from the given sets
Convert(KerasModels, KerasModelPaths, Customs, Loadable, Formats, Maps, Flags) ==
  \/ \E m \in KerasModels, p \in KerasModelPaths, c \in Customs : Call(m, p, c)
  \/ CheckArgs
  \/ AssertValidModel
  \/ \E dl \in {"ok", "no_lib", "fail"}, d \in Dirs : GetFile(dl, d)
  \/ \E m \in Loadable : LoadModel(m)
  \/ \E f \in Formats : CheckpointFormat(f)
  \/ CheckCompiled
  \/ \E mm \in Maps : CreateModelFn(mm)
  \/ \E g \in BOOLEAN : SessionConfig(g)
  \/ \E c \in BOOLEAN : WarmStart(c)
  \/ \E d \in Dirs : SfcLatest(d)
  \/ SfcWeights
  \/ \E ok \in BOOLEAN : SfcClone(ok)
  \/ \E ok \in BOOLEAN : SfcTrainFn(ok)
  \/ SfcOpenSession
  \/ \E ok \in BOOLEAN : SfcSetWeights(ok)
  \/ \E ok \in BOOLEAN : SfcInitVars(ok)
  \/ \E ok \in BOOLEAN : SfcSave(ok)
  \/ \E v2 \in Flags : BuildEstimator(v2)

\* Spec: one conversion, of every model, over every argument
Next ==
  Convert({None, "caller"}, Paths, CustomObjects, SavedModels \cup {NoModel},
          CheckpointFormats, MetricMaps, BOOLEAN)

Spec == Init /\ [][Next]_vars

\* SpecRepeat: any number of conversions, one after the other, of a compiled
\* model given as an object or loaded from storage
RepeatModels == {m \in ModelRecs : m.optimizer = "opt"}

InitRepeat == Init /\ caller \in RepeatModels

NextRepeat ==
  \/ Convert({None, "caller"}, {None, "gs://b/m.h5"}, {None},
             {m \in SavedModels : m \in RepeatModels /\ HasMark(m)} \cup {NoModel},
             {None, "saver"}, {None}, {FALSE})
  \/ Return

SpecRepeat == InitRepeat /\ [][NextRepeat]_vars

-----------------------------------------------------------------------------
(* Claims about model_to_estimator, checked under Spec. *)

InitFs == [d \in Dirs |-> IF d = "d2" THEN "model.ckpt-7" ELSE ""]

\* nothing outside the call's own locals has changed since the call began
Untouched ==
  /\ effects = <<>>
  /\ fs = InitFs
  /\ dirs = {d \in Dirs : InitFs[d] # ""}
  /\ backend = frame.backend0
  /\ sessions = {frame.backend0} \ {NoSession}
  /\ graph = "outer"
  /\ caller.attrs = "orig"
  /\ \A d \in Dirs : clones[d] = 0 /\ writes[d] = 0

ModelGiven == frame.keras_model # None
PathGiven == frame.keras_model_path \notin {None, ""}

\* C1: a call given both keras_model and keras_model_path, or neither, raises
\* ValueError at the argument checks, before any download, directory creation,
\* model load, session creation, checkpoint write or model validation.
C1_BadArgsRaiseBeforeIO ==
  (pc # "idle" /\ (ModelGiven <=> PathGiven)) =>
     /\ pc \in {"check_args", "raised"}
     /\ pc = "raised" => outcome = [kind |-> "ValueError", at |-> "check_args"]
     /\ Untouched

C1_Witness ==
  /\ pc = "raised"
  /\ ModelGiven /\ PathGiven
  /\ outcome.kind = "ValueError"

\* the model the call converts, once the call holds it
Converted ==
  IF frame.keras_model # None THEN caller
  ELSE IF frame.ref = "loaded" THEN frame.loaded ELSE NoModel

LastEffect == IF effects = <<>> THEN "none" ELSE effects[Len(effects)]

Did(e) == \E i \in DOMAIN effects : effects[i] = e

\* C2: a call converting an uncompiled model (no optimizer attribute, or a
\* falsy optimizer), given as an object or loaded from a path, never gets past
\* the compiled check: it builds no model_fn and no Estimator, sets no backend
\* session, writes no first checkpoint, and every state it can stop in is a
\* raised exception.
C2_UncompiledRejected ==
  (pc # "idle" /\ Converted # NoModel /\ Converted.optimizer \in {"absent", None}) =>
     /\ pc \in {"check_args", "validate", "download", "load", "format",
                "compiled", "raised"}
     /\ outcome.kind # "Estimator"
     /\ frame.model_fn = NoFn
     /\ backend = frame.backend0
     /\ ~Did("session") /\ ~Did("ckpt") /\ fs = InitFs
     /\ pc = "raised" \/ ENABLED Next

C2_Witness ==
  /\ pc = "raised"
  /\ frame.ref = "loaded" /\ frame.loaded.optimizer = None
  /\ outcome = [kind |-> "ValueError", at |-> "compiled"]
  /\ frame.checkpoint_format = "saver"

\* C5: the train function of the bootstrap clone is built on the fresh graph
\* while no open session is over that graph (the backend session set at line
\* 646 is over the caller's graph), and the bootstrap session is opened only
\* after the train function was built.
C5_TrainFunctionOutsideSession ==
  /\ LastEffect = "train_fn" =>
       /\ graph = "boot"
       /\ \A s \in sessions : s.graph # graph /\ s.kind # "boot"
  /\ \A i \in DOMAIN effects :
       effects[i] = "boot_session" =>
         /\ \E j \in 1..(i - 1) : effects[j] = "train_fn"
         /\ \E j \in 1..(i - 1) : effects[j] = "clone"

C5_Witness ==
  /\ LastEffect = "train_fn"
  /\ Did("session")
  /\ backend.kind = "backend" /\ backend \in sessions

\* C6: once checkpoint_format has been read, the call has raised ValueError at
\* that statement exactly when the format is neither None, 'checkpoint' nor
\* 'saver', or is None or 'checkpoint' for a model that is neither a graph
\* network nor Sequential; otherwise save_object_ckpt is False for 'saver' and
\* True for None and 'checkpoint'.  A call that raised built no Estimator.
C6_CheckpointFormatDecision ==
  /\ frame.checkpoint_format # "unread" =>
       LET f == frame.checkpoint_format
           known == Km.is_graph_network \/ Km.kind = "sequential"
           rejected == pc = "raised" /\ outcome = [kind |-> "ValueError", at |-> "format"]
       IN  /\ f = "saver" => ~rejected /\ ~frame.save_object_ckpt
           /\ (f \in {None, "checkpoint"} /\ known) => ~rejected /\ frame.save_object_ckpt
           /\ (f \in {None, "checkpoint"} /\ ~known) => rejected
           /\ f \notin {None, "checkpoint", "saver"} => rejected
           /\ ~rejected => (frame.model_fn # NoFn =>
                              frame.model_fn.save_object_ckpt = frame.save_object_ckpt)
  /\ pc = "raised" => outcome.kind # "Estimator" /\ frame.estimator_cls = None
  /\ outcome.kind = "Estimator" => pc = "returned" /\ frame.checkpoint_format \in {None, "checkpoint", "saver"}

C6_Witness ==
  /\ pc = "raised"
  /\ frame.checkpoint_format = None
  /\ Km.kind = "subclassed"
  /\ outcome = [kind |-> "ValueError", at |-> "format"]

\* some weight of the model is initialized: in graph mode Keras marks the
\* weights it initializes; an eager variable is initialized when it is created
SomeWeightInitialized(m) ==
  \E i \in DOMAIN m.layers : \E j \in DOMAIN m.layers[i] : eager \/ m.layers[i][j]

\* C8 (as claimed): after the session statement, if no weight of the model is
\* initialized the backend session is the one created from
\* config.session_config and no warning was logged; if some weight is, the
\* backend session is the one the call found and the warning was logged exactly
\* when session_config carries gpu_options.
C8_SessionByWeightInitialization ==
  pc = "warm" =>
    IF SomeWeightInitialized(Km)
    THEN /\ backend = frame.backend0
         /\ sessions = {frame.backend0} \ {NoSession}
         /\ ("session_config" \in warned) <=> frame.config.gpu_options
    ELSE /\ backend = [kind |-> "backend", graph |-> "outer",
                       gpu |-> frame.config.gpu_options]
         /\ backend \in sessions
         /\ "session_config" \notin warned

\* C10: the bootstrap session is over the fresh graph, is open only inside
\* _save_first_checkpoint, shares its graph with no other open session, and is
\* closed, with the default graph restored, on every exit of the function.
C10_BootstrapSessionScoped ==
  /\ \A s \in sessions : s.kind = "boot" =>
       /\ pc = "sfc" /\ graph = "boot" /\ s.graph = "boot"
       /\ Did("boot_session")
       /\ \A t \in sessions : t # s => t.graph # s.graph
  /\ pc # "sfc" => graph = "outer"
  /\ \A s \in sessions : s.kind # "boot" => s.graph = "outer"

C10_Witness ==
  /\ pc = "raised"
  /\ outcome = [kind |-> "Error", at |-> "sfc"]
  /\ Did("boot_session") /\ Did("init_vars")
  /\ backend.kind = "backend" /\ backend \in sessions
  /\ \A s \in sessions : s.kind # "boot"

-----------------------------------------------------------------------------
(* Claims about repeated conversions, checked under SpecRepeat. *)

\* the running call went through _save_first_checkpoint and it returned
SfcReturned == sfc.entered /\ pc \in {"estimator", "returned"}

BootstrapPath(d) == <<d, "keras", "keras_model.ckpt">>

\* the parts of C9 that hold: what one call does, and what later calls do
C9_PerCall ==
  /\ sfc.cloned => sfc.entry_latest = NoPath
  /\ Did("clone") <=> sfc.cloned
  /\ Did("ckpt") => sfc.cloned
  /\ SfcReturned =>
       /\ (sfc.cloned /\ Did("ckpt")) <=> sfc.entry_latest = NoPath
       /\ sfc.entry_latest = NoPath =>
            frame.warm_start_path = BootstrapPath(frame.config.model_dir)
       /\ sfc.entry_latest # NoPath =>
            /\ ~Did("clone") /\ ~Did("ckpt") /\ ~Did("boot_session")
            /\ frame.warm_start_path = sfc.entry_latest
       /\ frame.warm_start_path = latest_checkpoint(frame.config.model_dir)
  /\ \A d \in Dirs : writes[d] <= 1

\* C9 (as claimed): a call clones the model and writes keras_model.ckpt iff no
\* checkpoint exists; over the calls for one model_dir the model is cloned at
\* most once and a checkpoint written at most once; later calls write nothing
\* and return the existing latest path.
C9_ClonedAndWrittenAtMostOnce ==
  /\ C9_PerCall
  /\ \A d \in Dirs : clones[d] <= 1

\* once a directory holds a checkpoint, no step clones for it or writes to it
C9_Later ==
  \A d \in Dirs :
    fs[d] # "" => fs'[d] = fs[d] /\ clones'[d] = clones[d] /\ writes'[d] = writes[d]

\* C9 (amended): a call clones the model only when it finds no checkpoint, and
\* when it returns it has written keras_model.ckpt iff it found none; a
\* checkpoint is written at most once per model_dir; once one exists, every
\* later call clones nothing, writes nothing and returns the existing path.
\* A bootstrap that raised before saving leaves no checkpoint, and the next
\* call clones again.
C9_BootstrapOnlyWithoutCheckpoint == []C9_PerCall /\ [][C9_Later]_vars

C9_Witness ==
  /\ SfcReturned
  /\ sfc.entry_latest = BootstrapPath("d1")
  /\ writes["d1"] = 1 /\ clones["d1"] = 2

-----------------------------------------------------------------------------
(* _convert_estimator_io_to_keras, lines 92-193.                           *)
(*                                                                         *)
(* A name is the sequence of its characters.  A Python value is a record   *)
(* with a type field: None, a tensor, a numpy array, a list or a dict.     *)

Digits == <<"0", "1", "2", "3", "4", "5", "6", "7", "8", "9">>

\* '%d' % n
RECURSIVE Decimal(_)
Decimal(n) ==
  IF n < 10 THEN <<Digits[n + 1]>>
  ELSE Decimal(n \div 10) \o <<Digits[(n % 10) + 1]>>

Elems(seq) == {seq[i] : i \in DOMAIN seq}

\* ['input_%d' % i for i in range(1, n + 1)], and the same for 'output_%d'
input_n(n) == [i \in 1..n |-> <<"i", "n", "p", "u", "t", "_">> \o Decimal(i)]
output_n(n) == [i \in 1..n |-> <<"o", "u", "t", "p", "u", "t", "_">> \o Decimal(i)]

\* keras_model.input_names and keras_model.output_names of the models drawn,
\* and the keys of keras_model.inputs when the model was built with a dict
input_names == << <<"a">>, <<"b">> >>
output_names == << <<"y">>, <<"z">> >>

k_features == <<"f", "e", "a", "t", "u", "r", "e", "s">>
k_sample_weights ==
  <<"s", "a", "m", "p", "l", "e", "_", "w", "e", "i", "g", "h", "t", "s">>

PyNone == [type |-> "none"]
Tensor(of) == [type |-> "tensor", of |-> of]
Array(of) == [type |-> "array", of |-> of]
PyList(items) == [type |-> "list", items |-> items]
PyDict(items) == [type |-> "dict", items |-> items]

is_dict(x) == x.type = "dict"
keys(d) == DOMAIN d.items
len(d) == Cardinality(DOMAIN d.items)

\* _convert_tensor, lines 63-68
_convert_tensor(x) == IF x.type = "tensor" THEN x ELSE Tensor(x.of)

NoMessage ==
  [obj_name |-> None, order_name |-> None, order_keys |-> {}, obj_keys |-> {},
   different_keys |-> {}]

Returned(value) == [raise |-> None, message |-> NoMessage, value |-> value]
Raised(exc, message) == [raise |-> exc, message |-> message, value |-> PyNone]

\* mutant: the values of a dict are returned against the model's name order
_to_reversed_tensor_list(obj, key_order, obj_name, order_name) ==
  IF obj.type = "none" THEN Returned(PyNone)
  ELSE IF obj.type = "list"
  THEN Returned(PyList([i \in DOMAIN obj.items |-> _convert_tensor(obj.items[i])]))
  ELSE IF is_dict(obj)
  THEN LET different_keys == Elems(key_order) \ keys(obj)
       IN  IF different_keys # {}
           THEN Raised("FormattedKeyError",
                       [obj_name |-> obj_name, order_name |-> order_name,
                        order_keys |-> Elems(key_order), obj_keys |-> keys(obj),
                        different_keys |-> different_keys])
           ELSE Returned(PyList([i \in DOMAIN key_order |->
                   _convert_tensor(obj.items[key_order[Len(key_order) + 1 - i]])]))
  ELSE Returned(PyList(<<_convert_tensor(obj)>>))

\* _to_ordered_tensor_list, lines 109-150
_to_ordered_tensor_list(obj, key_order, obj_name, order_name) ==
  IF obj.type = "none" THEN Returned(PyNone)
  ELSE IF obj.type = "list"
  THEN Returned(PyList([i \in DOMAIN obj.items |-> _convert_tensor(obj.items[i])]))
  ELSE IF is_dict(obj)
  THEN LET different_keys == Elems(key_order) \ keys(obj)
       IN  IF different_keys # {}
           THEN Raised("FormattedKeyError",
                       [obj_name |-> obj_name, order_name |-> order_name,
                        order_keys |-> Elems(key_order), obj_keys |-> keys(obj),
                        different_keys |-> different_keys])
           ELSE Returned(PyList([i \in DOMAIN key_order |->
                                   _convert_tensor(obj.items[key_order[i]])]))
  ELSE Returned(PyList(<<_convert_tensor(obj)>>))

\* _extract_sample_weight_tensors, lines 185-193
_extract_sample_weight_tensors(features) ==
  IF is_dict(features) /\ keys(features) = {k_features, k_sample_weights}
  THEN [feature_tensor |-> features.items[k_features],
        sample_weight_tensors |-> features.items[k_sample_weights]]
  ELSE [feature_tensor |-> features, sample_weight_tensors |-> PyNone]

\* lines 166-171: {k: _convert_tensor(features[k]) for k in keras_model.inputs};
\* features[k] raises KeyError for a dict without k and TypeError for a value
\* that is not subscriptable by a string
DictInputTensors(features) ==
  IF ~is_dict(features) THEN Raised("TypeError", NoMessage)
  ELSE IF Elems(input_names) \ keys(features) # {}
       THEN Raised("KeyError", NoMessage)
       ELSE Returned(PyDict([k \in Elems(input_names) |->
                               _convert_tensor(features.items[k])]))

NoResult ==
  [raise |-> None, message |-> NoMessage, input_tensors |-> PyNone,
   target_tensors |-> PyNone, sample_weight_tensors |-> PyNone]

_convert_estimator_io_to_keras(keras_model, features0, labels) ==
  LET extracted == _extract_sample_weight_tensors(features0)
      features == extracted.feature_tensor
      sample_weight_tensors == extracted.sample_weight_tensors
      in_names == IF ~is_dict(features) THEN <<>>
                  ELSE IF keras_model.is_graph_network THEN input_names
                  ELSE input_n(len(features))
      out_names == IF ~is_dict(labels) THEN <<>>
                   ELSE IF keras_model.is_graph_network THEN output_names
                   ELSE output_n(len(labels))
      input_tensors ==
        IF keras_model.inputs = "dict" THEN DictInputTensors(features)
        ELSE IF keras_model.inputs = None /\ is_dict(features)
        THEN Returned(PyDict([k \in keys(features) |->
                                _convert_tensor(features.items[k])]))
        ELSE _to_ordered_tensor_list(features, in_names, "features", "inputs")
      target_tensors ==
        _to_ordered_tensor_list(labels, out_names, "labels", "outputs")
  IN  IF input_tensors.raise # None
      THEN [NoResult EXCEPT !.raise = input_tensors.raise,
                            !.message = input_tensors.message]
      ELSE IF target_tensors.raise # None
      THEN [NoResult EXCEPT !.raise = target_tensors.raise,
                            !.message = target_tensors.message]
      ELSE [raise |-> None, message |-> NoMessage,
            input_tensors |-> input_tensors.value,
            target_tensors |-> target_tensors.value,
            sample_weight_tensors |-> sample_weight_tensors]

\* the features and labels an input_fn may produce (lines 98-99): None, one
\* tensor, a list, a dict over some of the keys, and features wrapped with
\* sample weights
FeatureKeys == Elems(input_names) \cup Elems(input_n(2))
LabelKeys == Elems(output_names) \cup Elems(output_n(2))

Plain(Keys) ==
  {PyNone, Tensor(<<"t">>), Array(<<"t">>),
   PyList(<<Tensor(<<"t">>), Array(<<"u">>)>>)}
  \cup {PyDict([k \in K |-> Tensor(k)]) : K \in SUBSET Keys}
  \cup {PyDict([k \in Elems(input_names) |-> Array(k)])}

Wrapped ==
  {PyDict([k \in {k_features, k_sample_weights} |->
             IF k = k_features THEN f ELSE Tensor(<<"w">>)]) :
     f \in {Tensor(<<"t">>), PyDict([k \in Elems(input_names) |-> Tensor(k)]),
            PyDict([k \in {<<"a">>} |-> Tensor(k)])}}

Features == Plain(FeatureKeys) \cup Wrapped
Labels == Plain(LabelKeys)

\* the compiled models whose structure _convert_estimator_io_to_keras reads
IoModels ==
  {m \in ModelRecs : m.optimizer = "opt" /\ m.has_config /\ m.layers = << <<>> >>}

\* SpecIO: _convert_estimator_io_to_keras applied to every model structure,
\* features and labels
InitIO ==
  /\ Before
  /\ spec = NoSpec
  /\ ~eager
  /\ caller \in IoModels
  /\ \E features \in Features, labels \in Labels :
       io = [status |-> "drawn", keras_model |-> caller, features |-> features,
             labels |-> labels, result |-> NoResult]

ConvertIo ==
  /\ io.status = "drawn"
  /\ io' = [io EXCEPT !.status = "done",
                      !.result = _convert_estimator_io_to_keras(
                                   io.keras_model, io.features, io.labels)]
  /\ UNCHANGED <<eager, caller, fs, dirs, sessions, backend, graph, learning, pc,
                 frame, sfc, effects, warned, outcome, clones, writes, fns, spec>>

NextIO == ConvertIo

SpecIO == InitIO /\ [][NextIO]_vars

\* the keys the model requires of a features mapping: the keys of its inputs
\* when they are a dict, its input names when they are a list, none when the
\* input structure is unknown
RequiredInputs(m, features) ==
  IF m.inputs = "dict" THEN Elems(input_names)
  ELSE IF m.inputs = None THEN {}
  ELSE IF m.is_graph_network THEN Elems(input_names)
  ELSE Elems(input_n(len(features)))

RequiredOutputs(m, labels) ==
  IF m.is_graph_network THEN Elems(output_names) ELSE Elems(output_n(len(labels)))

IoFeatures == _extract_sample_weight_tensors(io.features).feature_tensor

FeaturesLackKey ==
  /\ is_dict(IoFeatures)
  /\ RequiredInputs(io.keras_model, IoFeatures) \ keys(IoFeatures) # {}

LabelsLackKey ==
  /\ is_dict(io.labels)
  /\ RequiredOutputs(io.keras_model, io.labels) \ keys(io.labels) # {}

\* C3: whenever features or labels are supplied as a mapping that lacks a key
\* the model requires, the call raises FormattedKeyError, whose message lists
\* the expected, the supplied and the missing keys, for list, dict and unknown
\* inputs of the model and for labels as well as features.
C3_MissingKeyRaisesFormattedKeyError ==
  (io.status = "done" /\ (FeaturesLackKey \/ LabelsLackKey)) =>
    /\ io.result.raise = "FormattedKeyError"
    /\ io.result.message.different_keys # {}
    /\ \/ /\ FeaturesLackKey
          /\ io.result.message.obj_name = "features"
          /\ io.result.message.order_keys = RequiredInputs(io.keras_model, IoFeatures)
          /\ io.result.message.obj_keys = keys(IoFeatures)
       \/ /\ LabelsLackKey
          /\ io.result.message.obj_name = "labels"
          /\ io.result.message.order_keys = RequiredOutputs(io.keras_model, io.labels)
          /\ io.result.message.obj_keys = keys(io.labels)

\* the case that refutes C3: a model built with dict inputs, features a dict
\* without one of its keys, and a plain KeyError
C3_DictInputsPlainKeyError ==
  /\ io.status = "done"
  /\ io.keras_model.inputs = "dict"
  /\ FeaturesLackKey
  /\ io.result.raise = "KeyError"

-----------------------------------------------------------------------------
(* model_fn, lines 321-389, with _clone_and_build_model (lines 196-248) and *)
(* _convert_keras_metrics_to_estimator (lines 251-289).                     *)

\* a model is cloned on at most MaxReplica + 1 replicas
MaxReplica == 10

ModeKeys == {"train", "eval", "infer"}

\* model.output_names of a clone: Keras appends "_" and the replica number to
\* the names of the clone built on a replica other than the first
ReplicaName(name, replica) ==
  IF replica = 0 THEN name ELSE name \o <<"_">> \o Decimal(replica)

ReplicaNames(names, replica) ==
  [i \in DOMAIN names |-> ReplicaName(names[i], replica)]

IsDigit(c) == \E i \in DOMAIN Digits : Digits[i] = c

\* line 336: re.compile(r'_\d$').sub('', name)
StripSuffix(name) ==
  LET n == Len(name)
  IN  IF n >= 2 /\ name[n - 1] = "_" /\ IsDigit(name[n])
      THEN SubSeq(name, 1, n - 2) ELSE name

\* lines 330-339: model_output_names
PredictionKeys(has_strategy, names) ==
  IF has_strategy THEN [i \in DOMAIN names |-> StripSuffix(names[i])] ELSE names

\* line 342: dict(zip(model_output_names, model.outputs)); of two outputs
\* under one key the later one stays
Predictions(model_output_names) ==
  {[key |-> model_output_names[i], output |-> i] :
     i \in {j \in DOMAIN model_output_names :
              \A k \in DOMAIN model_output_names :
                model_output_names[k] = model_output_names[j] => k <= j}}

\* the metrics a model may be compiled with (model._compile_metrics), and a
\* metric_names_map argument
Metrics == {{}, {"acc"}, {"acc", "mae"}}

MetricNamesMap(metric_names_map) ==
  IF metric_names_map = "renamed" THEN {[name |-> "acc", custom |-> "accuracy"]}
  ELSE {}

\* _convert_keras_metrics_to_estimator, lines 251-289
_convert_keras_metrics_to_estimator(compile_metrics, metric_names_map) ==
  LET map == MetricNamesMap(metric_names_map)
      custom_map_keys == {e.name : e \in map}
      unknown == compile_metrics \ custom_map_keys
      extra == custom_map_keys \ compile_metrics
  IN  IF compile_metrics = {} THEN NoMetrics
      ELSE IF map # {}
      THEN IF unknown # {} \/ extra # {}
           THEN [NoMetrics EXCEPT !.raise = "ValueError"]
           ELSE [raise |-> None, none |-> FALSE,
                 names |-> {e.custom : e \in {x \in map : x.name \in compile_metrics}}]
      ELSE [raise |-> None, none |-> FALSE, names |-> compile_metrics]

\* mutant: the clone is compiled in every mode
compile_clone_always(mode) == TRUE

\* line 222: compile_clone = (mode != ModeKeys.PREDICT)
compile_clone(mode) == mode # "infer"

\* lines 224-229: the global step created for a compiled clone
global_step(mode) == IF compile_clone(mode) THEN "global_step" ELSE None

\* lines 349-353: the function made for the clone
MadeFunction(mode) ==
  IF mode = "infer" THEN None
  ELSE IF mode = "train" THEN "train_function" ELSE "test_function"

\* the points of model_fn at which a Keras call may raise: before the clone
\* exists, while it is built and compiled (lines 233-247), and when its train
\* or test function is made (lines 351-353)
Faults == {"none", "clone", "build", "function"}

\* the model object a model_fn closes over
FnModel(fn) == IF fn.model = "caller" THEN caller ELSE fn.loaded

\* model_fn(features, labels, mode) of the i-th function kept, called by the
\* Estimator in its own graph; compile_metrics is read from the clone
ModelFn(i, features, labels, mode, has_strategy, replica, compile_metrics, fault) ==
  /\ pc = "idle"
  /\ i \in DOMAIN fns
  /\ spec.status = "none"
  /\ learning' = [learning EXCEPT !["fn"] = IF mode = "train" THEN "train" ELSE "test"]
  /\ LET fn == fns[i]
         keras_model == FnModel(fn)
         converted == _convert_estimator_io_to_keras(keras_model, features, labels)
         raised(exc, at) == [NoSpec EXCEPT !.status = "raised",
                                                    !.raise = exc, !.at = at]
         store(m) == /\ caller' = IF fn.model = "caller" THEN m ELSE caller
                     /\ fns' = IF fn.model = "caller" THEN fns
                               ELSE [fns EXCEPT ![i].loaded = m]
     IN  IF converted.raise # None
         THEN spec' = raised(converted.raise, "convert") /\ store(keras_model)
         ELSE IF fault = "clone"
         THEN spec' = raised("Error", "clone") /\ store(keras_model)
         ELSE \E in_place \in CloneInPlace(keras_model) :
           LET reset == IF in_place THEN InPlaceReset(keras_model) ELSE keras_model
               model_output_names ==
                 PredictionKeys(has_strategy,
                                ReplicaNames(output_names,
                                             IF has_strategy THEN replica ELSE 0))
               metrics == IF mode = "infer" THEN NoMetrics
                          ELSE _convert_keras_metrics_to_estimator(
                                 compile_metrics, fn.metric_names_map)
               restore == /\ ~keras_model.is_graph_network
                          /\ reset.cache \notin {"absent", None}
               restored == IF restore
                           THEN in_place_subclassed_model_state_restoration(reset)
                           ELSE reset
           IN  IF fault = "build"
               THEN spec' = raised("Error", "build") /\ store(reset)
               ELSE IF fault = "function" /\ mode # "infer"
               THEN spec' = raised("Error", "function") /\ store(reset)
               ELSE IF metrics.raise # None
               THEN spec' = raised(metrics.raise, "metrics") /\ store(reset)
               ELSE /\ spec' =
                         [status |-> "returned", raise |-> None, at |-> None,
                          mode |-> mode,
                          compiled |-> compile_clone(mode),
                          optimizer_iterations |-> global_step(mode),
                          function |-> MadeFunction(mode),
                          predictions |-> Predictions(model_output_names),
                          loss |-> IF mode = "infer" THEN None ELSE "total_loss",
                          train_op |-> IF mode = "train" THEN "updates_op" ELSE None,
                          eval_metric_ops |-> metrics,
                          export_outputs |->
                            {[key |-> "serving_default",
                              outputs |-> Predictions(model_output_names)]},
                          scaffold |-> IF fn.save_object_ckpt THEN "saver" ELSE None]
                    /\ store(restored)
  /\ UNCHANGED <<eager, fs, dirs, sessions, backend, graph, pc, frame, sfc,
                 effects, warned, outcome, clones, writes, io>>

\* the Estimator takes the EstimatorSpec, or the exception, and leaves the
\* graph it called model_fn in
Take ==
  /\ pc = "idle"
  /\ spec.status # "none"
  /\ spec' = NoSpec
  /\ learning' = [learning EXCEPT !["fn"] = "unset"]
  /\ UNCHANGED <<eager, caller, fs, dirs, sessions, backend, graph, pc, frame,
                 sfc, effects, warned, outcome, clones, writes, fns, io>>

\* the caller keeps the Estimator returned, and with it the model_fn
Keep ==
  /\ pc = "returned"
  /\ Len(fns) < MaxFns
  /\ fns' = Append(fns, frame.model_fn)
  /\ pc' = "idle"
  /\ frame' = NoFrame
  /\ sfc' = NoSfc
  /\ effects' = <<>>
  /\ warned' = {}
  /\ outcome' = NoOutcome
  /\ UNCHANGED <<eager, caller, fs, dirs, sessions, backend, graph, learning,
                 clones, writes, spec, io>>

\* SpecFn: conversions of a compiled model, each Estimator kept, and the
\* model_fn functions invoked in every mode
FnModels ==
  {m \in ModelRecs : m.optimizer = "opt" /\ m.built /\ m.layers = << <<FALSE>> >>}

FnFeatures ==
  {PyDict([k \in Elems(input_names) |-> Tensor(k)]),
   PyDict([k \in Elems(input_n(2)) |-> Tensor(k)]),
   PyDict([k \in {k_features, k_sample_weights} |->
             IF k = k_features THEN PyDict([j \in Elems(input_names) |-> Tensor(j)])
             ELSE Tensor(<<"w">>)])}

FnLabels == {PyNone, Tensor(<<"t">>)}

\* no strategy, or the first or the second replica of one
Strategies ==
  {[has_strategy |-> FALSE, replica |-> 0], [has_strategy |-> TRUE, replica |-> 0],
   [has_strategy |-> TRUE, replica |-> 1]}

InitFn ==
  /\ Before
  /\ ~eager
  /\ caller \in FnModels
  /\ spec = NoSpec
  /\ io = NoIo

NextFn ==
  \/ Convert({None, "caller"}, {None, "gs://b/m.h5"}, {None},
             {m \in SavedModels : m \in FnModels} \cup {NoModel},
             {None, "saver"}, MetricMaps, {FALSE})
  \/ Keep
  \/ \E i \in 1..MaxFns, features \in FnFeatures, labels \in FnLabels,
        mode \in ModeKeys, strategy \in Strategies,
        compile_metrics \in Metrics, fault \in Faults :
       ModelFn(i, features, labels, mode, strategy.has_strategy,
               strategy.replica, compile_metrics, fault)
  \/ Take

SpecFn == InitFn /\ [][NextFn]_vars

\* the caller's model holds its original attributes and no saved copy of them
Clean(m) == m.attrs = "orig" /\ m.cache \in {"absent", None}

\* the state a model stores, apart from the cache of the in-place reset
Stored(m) == [m EXCEPT !.cache = None]

C4_Step ==
  /\ (Clean(caller) /\ spec'.status # "raised") =>
       (Clean(caller') /\ Stored(caller') = Stored(caller))
  /\ \A j \in DOMAIN fns : j \in DOMAIN fns' /\ fns'[j] = fns[j]

\* C4: no step of a conversion and no completed model_fn invocation, in any
\* mode, changes the stored state of the caller's model: a subclassed model
\* reset in place holds its original attributes again when model_fn returns;
\* and every conversion adds a model_fn of its own, leaving those made before
\* as they were.
C4_ConversionKeepsModel == [][C4_Step]_vars

\* two conversions of a subclassed model, and an invocation that reset the
\* model in place and restored it
C4_Witness ==
  /\ Len(fns) = 2
  /\ fns[1] # fns[2]
  /\ ~caller.is_graph_network
  /\ spec.status = "returned"
  /\ caller.attrs = "orig"
  /\ caller.cache = None

-----------------------------------------------------------------------------
(* The prediction keys, lines 330-342, as a function of the clone's output  *)
(* names.                                                                   *)

\* output names a compiled model may have: Keras numbers layers of one class
OutputNames == { <<"d">>, <<"d", "_", "1">>, <<"y">> }

OutputNameLists ==
  { <<n>> : n \in OutputNames }
  \cup { p \in OutputNames \X OutputNames : p[1] # p[2] }

\* SpecKeys: the prediction keys of a clone built with no strategy, or on any
\* replica of one
InitKeys ==
  /\ Before
  /\ ~eager
  /\ caller \in FnModels
  /\ io = NoIo
  /\ \E names \in OutputNameLists, has_strategy \in BOOLEAN, replica \in 0..MaxReplica :
       /\ ~has_strategy => replica = 0
       /\ spec = [status |-> "cloned", has_strategy |-> has_strategy,
                  replica |-> replica, names |-> names,
                  output_names |-> ReplicaNames(names, replica),
                  model_output_names |-> <<>>, predictions |-> {}]

NamePredictions ==
  /\ spec.status = "cloned"
  /\ LET model_output_names == PredictionKeys(spec.has_strategy, spec.output_names)
     IN  spec' = [spec EXCEPT !.status = "named",
                              !.model_output_names = model_output_names,
                              !.predictions = Predictions(model_output_names)]
  /\ UNCHANGED <<eager, caller, fs, dirs, sessions, backend, graph, learning, pc,
                 frame, sfc, effects, warned, outcome, clones, writes, fns, io>>

NextKeys == NamePredictions

SpecKeys == InitKeys /\ [][NextKeys]_vars

\* C7: under a distribution strategy every prediction key is the clone's
\* output name without its per-replica suffix ("_" and the replica number), so
\* the keys are the same on every replica; with no strategy the prediction
\* keys are the clone's output names unchanged.
C7_PredictionKeysStripReplicaSuffix ==
  spec.status = "named" =>
    IF spec.has_strategy
    THEN spec.model_output_names = spec.names
    ELSE spec.model_output_names = spec.output_names

\* the cases that refute C7: a replica number of two digits is not removed,
\* and on the first replica a name that ends in "_" and a digit is shortened
C7_TwoDigitSuffixKept ==
  /\ spec.status = "named"
  /\ spec.has_strategy
  /\ spec.replica >= 10
  /\ spec.model_output_names = spec.output_names

C7_OwnSuffixRemoved ==
  /\ spec.status = "named"
  /\ spec.has_strategy
  /\ spec.replica = 0
  /\ spec.model_output_names # spec.names

-----------------------------------------------------------------------------
(* The ordered tensor lists, lines 109-150 (checked under SpecIO).          *)

\* the names the model requests of a labels mapping (lines 160-164), and of a
\* features mapping that goes through _to_ordered_tensor_list (lines 155-159)
RequestedOutputs ==
  IF io.keras_model.is_graph_network THEN output_names
  ELSE output_n(len(io.labels))

RequestedInputs ==
  IF io.keras_model.is_graph_network THEN input_names
  ELSE input_n(len(IoFeatures))

\* features are converted by _to_ordered_tensor_list (lines 175-178)
FeaturesOrdered ==
  /\ io.keras_model.inputs # "dict"
  /\ ~(io.keras_model.inputs = None /\ is_dict(IoFeatures))

\* what _to_ordered_tensor_list owes for obj under the requested names
OrderedListOf(obj, key_order, list) ==
  IF obj.type = "none" THEN list = PyNone
  ELSE IF obj.type = "list"
  THEN /\ list.type = "list"
       /\ DOMAIN list.items = DOMAIN obj.items
       /\ \A i \in DOMAIN obj.items :
            list.items[i].type = "tensor" /\ list.items[i].of = obj.items[i].of
  ELSE IF is_dict(obj)
  THEN /\ list.type = "list"
       /\ DOMAIN list.items = DOMAIN key_order
       /\ \A i \in DOMAIN key_order :
            /\ list.items[i].type = "tensor"
            /\ list.items[i].of = obj.items[key_order[i]].of
  ELSE /\ list.type = "list"
       /\ DOMAIN list.items = {1}
       /\ list.items[1].type = "tensor" /\ list.items[1].of = obj.of

Covers(obj, key_order) == is_dict(obj) => Elems(key_order) \subseteq keys(obj)

\* C11: for a features or labels mapping whose keys cover the names the model
\* requests, _to_ordered_tensor_list raises nothing and returns one tensor per
\* requested name, in the model's name order, whatever other keys the mapping
\* holds; a list is returned element by element in its own order, a single
\* value as a one-element list, and None as None.
C11_OrderedTensorList ==
  io.status = "done" =>
    /\ (Covers(io.labels, RequestedOutputs)
        /\ io.result.raise = "FormattedKeyError")
         => io.result.message.obj_name # "labels"
    /\ (FeaturesOrdered /\ Covers(IoFeatures, RequestedInputs)
        /\ io.result.raise = "FormattedKeyError")
         => io.result.message.obj_name # "features"
    /\ io.result.raise = None =>
         /\ OrderedListOf(io.labels, RequestedOutputs, io.result.target_tensors)
         /\ FeaturesOrdered =>
              OrderedListOf(IoFeatures, RequestedInputs, io.result.input_tensors)

\* labels with a key beyond the two the model requests, returned as the two
\* tensors in the model's order; features given as a list
C11_Witness ==
  /\ io.status = "done"
  /\ io.keras_model.is_graph_network
  /\ is_dict(io.labels)
  /\ Elems(output_names) \subseteq keys(io.labels)
  /\ keys(io.labels) # Elems(output_names)
  /\ io.features.type = "list"
  /\ io.result.raise = None
  /\ io.result.target_tensors = PyList(<<Tensor(output_names[1]), Tensor(output_names[2])>>)
  /\ io.result.input_tensors = PyList(<<Tensor(<<"t">>), Tensor(<<"u">>)>>)

-----------------------------------------------------------------------------
(* The EstimatorSpec, lines 321-389 (checked under SpecFn).                 *)

-----------------------------------------------------------------------------
(* The exits of model_fn by an exception (checked under SpecFn).            *)

\* C13: the caller's subclassed model is restored on every exit of model_fn:
\* when model_fn raises after the model was reset in place, the model holds
\* its original attributes, and no saved copy of them, when the exception
\* reaches the caller.
C13_RestoredOnEveryExit ==
  spec.status = "raised" => Clean(caller)

\* the cases that refute C13: an invalid metric_names_map, and a train or test
\* function that cannot be made, leave the caller's model reset
C13_MetricsErrorLeavesReset ==
  /\ spec.status = "raised"
  /\ spec.raise = "ValueError"
  /\ spec.at = "metrics"
  /\ caller.attrs = "clone"
  /\ caller.cache = "orig"

C13_FunctionErrorLeavesReset ==
  /\ spec.status = "raised"
  /\ spec.at = "function"
  /\ caller.attrs = "clone"
  /\ caller.cache = "orig"

-----------------------------------------------------------------------------
(* The predictions mapping, line 342 (checked under SpecKeys).              *)

\* C14: the predictions mapping has one entry per output of the model, with
\* or without a distribution strategy: the prediction keys are pairwise
\* distinct, and no output is overwritten by another whose name becomes equal
\* to its own once the suffix is removed.
C14_OnePredictionPerOutput ==
  spec.status = "named" =>
    /\ \A i, j \in DOMAIN spec.model_output_names :
         spec.model_output_names[i] = spec.model_output_names[j] => i = j
    /\ Cardinality(spec.predictions) = Len(spec.output_names)
    /\ \A i \in DOMAIN spec.output_names :
         \E p \in spec.predictions : p.output = i

\* the case that refutes C14: under a strategy two outputs with distinct names
\* share one prediction key, and the first of them is not in the mapping
C14_OutputOverwritten ==
  /\ spec.status = "named"
  /\ spec.has_strategy
  /\ Len(spec.output_names) = 2
  /\ spec.output_names[1] # spec.output_names[2]
  /\ spec.model_output_names[1] = spec.model_output_names[2]
  /\ spec.predictions = {[key |-> spec.model_output_names[2], output |-> 2]}

-----------------------------------------------------------------------------
(* The warm start, lines 648-669 (checked under Spec).                      *)

AfterWarmStart == pc \in {"estimator", "returned"}

\* a warm-start path is produced exactly for a graph network on the chief
WarmStartByKind ==
  AfterWarmStart =>
    (frame.warm_start_path # NoPath <=>
       (Km.is_graph_network /\ frame.config.is_chief))

\* C15: a warm-start checkpoint path is produced exactly when the model is a
\* graph network and the config is chief, and warm_start_from is None
\* otherwise; the warning about a subclassed model that was already called is
\* logged only for a model that is not a graph network and is built, never for
\* a graph network, whatever config.is_chief is.
C15_BootstrapAndWarningByKind ==
  AfterWarmStart =>
    /\ frame.warm_start_path # NoPath <=>
         (Km.is_graph_network /\ frame.config.is_chief)
    /\ "subclassed" \in warned => (~Km.is_graph_network /\ Km.built)

\* the case that refutes C15: a graph network converted where the config is
\* not chief gets no warm-start path and the subclassed-model warning
C15_GraphNetworkWarned ==
  /\ pc = "returned"
  /\ Km.is_graph_network
  /\ ~frame.config.is_chief
  /\ frame.warm_start_path = NoPath
  /\ "subclassed" \in warned

====
